---- MODULE Spec2Model ----
(***************************************************************************)
(* godns: cache-first DNS resolution with hit-count driven promotion.      *)
(*                                                                         *)
(* The model follows the daemon's request handler (dns.HandleDNSRequest),  *)
(* the detached promotion goroutine (updateMetric), the answer synthesizer *)
(* (RespondWithRecords), the Postgres adapter (package db), the Redis     *)
(* adapter (package cache) and the administrative paths that write the    *)
(* same two stores                                                         *)
(* (HTTP API handlers and CLI commands).                                   *)
(*                                                                         *)
(* Record lists are modelled as sets: the SQL queries carry no ORDER BY,   *)
(* and rows are unique on (domain, qtype, value).                          *)
(***************************************************************************)
EXTENDS Integers, FiniteSets, Sequences, TLC

(***************************************************************************)
(* Bounds of the model.                                                    *)
(***************************************************************************)
\* number of DNS queries the daemon receives in one behaviour
MaxQueries == 3
\* number of queries (handler or its promotion goroutine) active at once
MaxInFlight == 2
\* number of administrative / environment operations in one behaviour
MaxAdminOps == 2
\* number of store or cache calls that fail in one behaviour
MaxFaults == 1
\* number of external events in one behaviour: queries received,
\* administrative / environment operations, failed calls
MaxEvents == 4

(***************************************************************************)
(* Program constants.                                                      *)
(***************************************************************************)
\* MIN_HITS_FOR_CACHE, read from the environment at every promotion.  The
\* code's default is "5"; the deployment modelled here sets it to 2.
MinHits == 2
\* "If no ttl is specified use 300" (API), and ttl := 300 (CLI)
ApiDefaultTTL == 300
CliDefaultTTL == 300
\* uint32(r.TTL): a TTL is carried as two 16-bit halves, each below 2^16
HalfWord == 65536
\* time.Hour, the expiry Rdb.Set is given, in seconds
TimeHour == 3600

(***************************************************************************)
(* The finite universe of strings the model draws its inputs from.         *)
(***************************************************************************)
\* values of stored records, by syntactic class:
\*   dotted-decimal IPv4, IPv4-mapped IPv6 literal, not an IP address, text
ValueV4 == "192.0.2.1"
ValueV4Mapped == "::ffff:192.0.2.1"
ValueHost == "not-an-ip"
ValueText == "hello"

\* (domain, qtype, value) triples the administrative paths may write
RecordTriples ==
    { <<"ex.com", "A", ValueV4>>,
      <<"ex.com", "A", ValueV4Mapped>>,
      <<"ex.com", "A", ValueHost>>,
      <<"ex.com", "TXT", ValueText>> }

\* TTLs given in an API body (0: "not specified" for a new record)
InputTTLs == {0, 60}

\* the optional [ttl] argument of add-record: absent, or given
TTLArgs == { << >>, <<60>> }

\* (domain, qtype) pairs named in administrative requests
AdminPairs == {<<t[1], t[2]>> : t \in RecordTriples}

\* question sections of incoming messages: empty, or one question whose
\* name is fully qualified and whose type is a name of dns.TypeToString;
\* a name arrives in the letter case the client sent
Questions ==
    { << >> } \cup
    { << [name |-> "ex.com.", qtype |-> t] >> : t \in {"A", "AAAA", "ANY"} } \cup
    { << [name |-> "EX.com.", qtype |-> "A"] >> }

(***************************************************************************)
(* String functions, tabulated on the universe.                            *)
(***************************************************************************)
\* strings.ToLower
ToLower(s) ==
    CASE s = "EX.com" -> "ex.com"
      [] s = "A" -> "a"
      [] s = "AAAA" -> "aaaa"
      [] s = "TXT" -> "txt"
      [] s = "CNAME" -> "cname"
      [] s = "ANY" -> "any"
      [] OTHER -> s

\* strings.ToUpper
ToUpper(s) ==
    CASE s = "a" -> "A"
      [] s = "aaaa" -> "AAAA"
      [] s = "txt" -> "TXT"
      [] s = "cname" -> "CNAME"
      [] s = "any" -> "ANY"
      [] s = "ex.com" -> "EX.COM"
      [] s = "EX.com" -> "EX.COM"
      [] OTHER -> s

\* strings.EqualFold: equality under simple case folding
EqualFold(s, t) == ToUpper(s) = ToUpper(t)

\* strings.TrimSuffix(q.Name, ".")
TrimSuffix(s) ==
    CASE s = "ex.com." -> "ex.com"
      [] s = "EX.com." -> "EX.com"
      [] OTHER -> s

\* dns.Fqdn: append the root label unless it is there already
Fqdn(s) ==
    CASE s = "ex.com" -> "ex.com."
      [] s = "EX.com" -> "EX.com."
      [] s = "ex.com." -> "ex.com."
      [] s = "EX.com." -> "EX.com."
      [] s = ValueV4 -> "192.0.2.1."
      [] s = ValueV4Mapped -> "::ffff:192.0.2.1."
      [] s = ValueHost -> "not-an-ip."
      [] s = ValueText -> "hello."
      [] OTHER -> s

\* the nil net.IP
NilIP == ""

\* net.ParseIP: the 16-byte form of an IPv4 or IPv6 literal, nil otherwise.
\* An IPv4 literal is stored in its IPv4-in-IPv6 form, so a dotted-decimal
\* literal and its ::ffff: spelling parse to the same value.
ParseIP(s) ==
    CASE s = ValueV4 -> "::ffff:192.0.2.1"
      [] s = ValueV4Mapped -> "::ffff:192.0.2.1"
      [] s = "2001:db8::1" -> "2001:db8::1"
      [] OTHER -> NilIP

\* net.IP.To4: the 4-byte form of an IPv4 (or IPv4-mapped) address, else nil
To4(ip) ==
    CASE ip = "::ffff:192.0.2.1" -> "192.0.2.1"
      [] OTHER -> NilIP

\* uint32(r.TTL): the low 32 bits of the (two's complement) int, as the pair
\* of its 16-bit halves (a negative int wraps: -1 becomes 65535, 65535)
ToUint32(n) == [hi |-> (n \div HalfWord) % HalfWord, lo |-> n % HalfWord]

(***************************************************************************)
(* State.                                                                  *)
(***************************************************************************)
VARIABLES
    records,    \* table dns_records: a set of rows [domain, qtype, ttl, value]
    metrics,    \* table dns_metrics: (domain, qtype) -> hits, rows as created
    cache,      \* Redis: key -> stored value and its expiry, keys as set
    queries,    \* per query: the handler's position, what it did and wrote
    promos,     \* per query: its promotion goroutine (updateMetric)
    adminOps,   \* administrative / environment operations performed
    faults,     \* store and cache calls that have failed
    removed     \* TRUE once rows or a cache entry were deleted, expired or garbled

vars == <<records, metrics, cache, queries, promos, adminOps, faults, removed>>

QueryIds == 1..MaxQueries

(***************************************************************************)
(* Persistent store adapter (package db).                                  *)
(***************************************************************************)
\* model.Record
Record(domain, qtype, ttl, value) ==
    [domain |-> domain, qtype |-> qtype, ttl |-> ttl, value |-> value]

\* the UNIQUE(domain, qtype, value) constraint of dns_records
SameTriple(r, s) ==
    r.domain = s.domain /\ r.qtype = s.qtype /\ r.value = s.value

\* mutant: a plain INSERT, with no conflict clause and no unique constraint
AddRecordAppend(rows, r) == rows \cup {r}

\* db.AddRecord: INSERT ... ON CONFLICT (domain, qtype, value) DO UPDATE SET ttl
AddRecord(rows, r) == {s \in rows : ~SameTriple(s, r)} \cup {r}

\* db.AddRecord called for each record of a list in turn
RECURSIVE AddRecords(_, _)
AddRecords(rows, recs) ==
    IF recs = {} THEN rows
    ELSE LET r == CHOOSE x \in recs : TRUE
         IN  AddRecords(AddRecord(rows, r), recs \ {r})

\* mutant: the lookup matches the domain only
FetchRecordsByDomain(rows, domain, qtype) == {r \in rows : r.domain = domain}

\* db.FetchRecords: SELECT ... WHERE domain = $1 AND qtype = $2
FetchRecords(rows, domain, qtype) ==
    {r \in rows : r.domain = domain /\ r.qtype = qtype}

\* DELETE FROM dns_records WHERE domain=$1 AND qtype=$2
DeleteRecords(rows, domain, qtype) ==
    {r \in rows : ~(r.domain = domain /\ r.qtype = qtype)}

\* mutant: the upsert writes 1 instead of adding 1 (a lost update)
IncrementMetricLost(m, domain, qtype) ==
    [p \in DOMAIN m \cup {<<domain, qtype>>} |->
        IF p = <<domain, qtype>> THEN 1 ELSE m[p]]

\* db.IncrementMetric: INSERT ... VALUES ($1,$2,1) ON CONFLICT DO UPDATE
\* SET hits = dns_metrics.hits + 1
IncrementMetric(m, domain, qtype) ==
    IF <<domain, qtype>> \in DOMAIN m
    THEN [m EXCEPT ![<<domain, qtype>>] = @ + 1]
    ELSE m @@ (<<domain, qtype>> :> 1)

\* db.GetDomainHits: row.Scan fails when the pair has no row
GetDomainHits(m, domain, qtype) ==
    IF <<domain, qtype>> \in DOMAIN m
    THEN [err |-> FALSE, hits |-> m[<<domain, qtype>>]]
    ELSE [err |-> TRUE, hits |-> 0]

(***************************************************************************)
(* Cache store adapter (package cache).                                    *)
(***************************************************************************)
\* mutant: the key is built from the strings as given
CacheKeyAsGiven(domain, qtype) == "dns:record:" \o domain \o ":" \o qtype

\* cache.CacheKey: fmt.Sprintf("dns:record:%s:%s", lower(domain), upper(qtype))
CacheKey(domain, qtype) ==
    "dns:record:" \o ToLower(domain) \o ":" \o ToUpper(qtype)

\* json.Marshal of a record list: the text stored under the key
Marshal(recs) == [json |-> TRUE, recs |-> recs]

\* bytes under a key that are no JSON record list
Garbage == [json |-> FALSE, recs |-> {}]

\* json.Unmarshal([]byte(s), &recs)
Unmarshal(v) ==
    IF v.json THEN [err |-> FALSE, recs |-> v.recs]
    ELSE [err |-> TRUE, recs |-> {}]

\* an entry that carries no expiry (Redis: expiration 0)
NoExpiry == 0

\* Rdb.Get(key).Result(): redis.Nil (an error) when the key is absent
RedisGet(c, key) ==
    IF key \in DOMAIN c THEN [err |-> FALSE, val |-> c[key].val]
    ELSE [err |-> TRUE, val |-> Garbage]

\* Rdb.Set(key, value, expiration): the value and its expiry replace
\* whatever the key held
RedisSet(c, key, v, expiration) ==
    [k \in DOMAIN c \cup {key} |->
        IF k = key THEN [val |-> v, expiry |-> expiration] ELSE c[k]]

\* Rdb.Del(key)
RedisDel(c, key) == [k \in DOMAIN c \ {key} |-> c[k]]

\* Rdb.Exists(key) > 0
RedisExists(c, key) == key \in DOMAIN c

\* mutant: the empty list is not refused
CacheRecordUnchecked(c, domain, qtype, recs) ==
    [err |-> FALSE,
     cache |-> RedisSet(c, CacheKey(domain, qtype), Marshal(recs), TimeHour)]

\* cache.CacheRecord: refuses an empty list, else sets the whole entry
CacheRecord(c, domain, qtype, recs) ==
    IF recs = {}
    THEN [err |-> TRUE, cache |-> c]
    ELSE [err |-> FALSE,
          cache |-> RedisSet(c, CacheKey(domain, qtype), Marshal(recs), TimeHour)]

(***************************************************************************)
(* Answer synthesizer (RespondWithRecords).                                *)
(***************************************************************************)
\* dns.RR_Header plus the record data
RR(r, rrtype, rdata) ==
    [name |-> Fqdn(r.domain), rrtype |-> rrtype, class |-> "IN",
     ttl |-> ToUint32(r.ttl), rdata |-> rdata]

\* "Only include matching QType or ANY"
Included(r, qtype) == EqualFold(r.qtype, qtype) \/ qtype = "ANY"

\* the switch on strings.ToUpper(r.QType): the answers one record yields
AnswersOf(r) ==
    CASE ToUpper(r.qtype) = "A" ->
            IF To4(ParseIP(r.value)) # NilIP
            THEN {RR(r, "A", To4(ParseIP(r.value)))} ELSE {}
      [] ToUpper(r.qtype) = "AAAA" ->
            IF ParseIP(r.value) # NilIP
            THEN {RR(r, "AAAA", ParseIP(r.value))} ELSE {}
      [] ToUpper(r.qtype) = "CNAME" -> {RR(r, "CNAME", Fqdn(r.value))}
      [] ToUpper(r.qtype) = "TXT" -> {RR(r, "TXT", r.value)}
      [] OTHER -> {}

\* m.SetReply(req) with the answers appended: rcode success
RespondWithRecords(recs, qtype) ==
    [rcode |-> "NOERROR",
     answers |-> UNION {AnswersOf(r) : r \in {x \in recs : Included(x, qtype)}}]

\* m.SetRcode(r, code): a reply with no answers
SetRcode(code) == [rcode |-> code, answers |-> {}]

\* mutant: the reply to an empty question carries another rcode
FormatErrorReplyWrong == SetRcode("SERVFAIL")

\* m.SetRcode(r, dns.RcodeFormatError)
FormatErrorReply == SetRcode("FORMERR")

\* m.SetRcode(r, dns.RcodeServerFailure)
ServerFailureReply == SetRcode("SERVFAIL")

\* m.SetRcode(r, dns.RcodeNameError)
NameErrorReply == SetRcode("NXDOMAIN")

(***************************************************************************)
(* Queries and promotions.                                                 *)
(***************************************************************************)
\* no message written yet
NoReply == [rcode |-> "none", answers |-> {}]

\* a query the daemon has not received yet
IdleQuery ==
    [pc |-> "idle", question |-> << >>,
     cacheReads |-> 0, cacheOutcome |-> "none",
     storeLookups |-> 0, storeOutcome |-> "none",
     recs |-> {}, domainRows |-> {},
     reply |-> NoReply, written |-> 0,
     servedBefore |-> 0, promotedBefore |-> FALSE, failedBefore |-> FALSE]

\* no goroutine started (fetchedAt: the number of administrative operations
\* done when the promotion re-fetched, which tells two states of the store
\* apart)
NoPromo ==
    [pc |-> "none", domain |-> "", qtype |-> "", servedFromCache |-> FALSE,
     hits |-> 0, recs |-> {}, incs |-> 0, reads |-> 0, fetches |-> 0,
     fetchedAt |-> 0, wrote |-> FALSE]

\* mutant: the flag of a cache-served response is not passed on
StartPromoUnflagged(domain, qtype, servedFromCache) ==
    [pc |-> "inc", domain |-> domain, qtype |-> qtype, servedFromCache |-> FALSE,
     hits |-> 0, recs |-> {}, incs |-> 0, reads |-> 0, fetches |-> 0,
     fetchedAt |-> 0, wrote |-> FALSE]

\* go updateMetric(domain, qtype, servedFromCache)
StartPromo(domain, qtype, servedFromCache) ==
    [NoPromo EXCEPT !.pc = "inc", !.domain = domain, !.qtype = qtype,
                    !.servedFromCache = servedFromCache]

\* q := r.Question[0]; domain := strings.TrimSuffix(q.Name, ".")
DomainOf(question) == TrimSuffix(question[1].name)

\* qtype := dns.TypeToString[q.Qtype] (types are modelled by their names)
QtypeOf(question) == question[1].qtype

\* queries whose handler or promotion goroutine is still running
InFlight ==
    {i \in QueryIds : queries[i].pc \in {"cache", "store"}
                      \/ promos[i].pc \in {"inc", "read", "fetch", "write"}}

\* external events so far
Events ==
    Cardinality({i \in QueryIds : queries[i].pc # "idle"}) + adminOps + faults

\* a call to the store or the cache either succeeds or fails (ok = FALSE)
Outcome(ok) ==
    /\ ok \/ (faults < MaxFaults /\ Events < MaxEvents)
    /\ faults' = IF ok THEN faults ELSE faults + 1

\* store-served responses to the same question written so far
ServedFromStore(question) ==
    Cardinality({j \in QueryIds : /\ queries[j].question = question
                                  /\ queries[j].storeOutcome = "rows"
                                  /\ queries[j].written > 0})

\* a promotion of a store-served response of the pair read a counter at or
\* above the threshold and has run to completion
PromotionCompleted(domain, qtype) ==
    \E j \in QueryIds : /\ promos[j].pc = "done"
                        /\ promos[j].domain = domain
                        /\ promos[j].qtype = qtype
                        /\ ~promos[j].servedFromCache
                        /\ promos[j].reads > 0
                        /\ promos[j].hits >= MinHits

Init ==
    /\ records = {}
    /\ metrics = << >>
    /\ cache = << >>
    /\ queries = [i \in QueryIds |-> IdleQuery]
    /\ promos = [i \in QueryIds |-> NoPromo]
    /\ adminOps = 0
    /\ faults = 0
    /\ removed = FALSE

(***************************************************************************)
(* Resolver: HandleDNSRequest.                                             *)
(***************************************************************************)
\* len(r.Question) == 0
EmptyQuestion(question) == Len(question) = 0

\* mutant: the decoding error is not tested
CacheHitUndecoded(get, dec) == ~get.err

\* the two nested conditions of the cache read: Get succeeded, and the
\* value decoded
CacheHit(get, dec) == ~get.err /\ ~dec.err

\* how the cache read ended, as the handler sees it
CacheOutcome(ok, get, dec) ==
    IF ~ok THEN "error"
    ELSE IF get.err THEN "absent"
    ELSE IF dec.err THEN "corrupt"
    ELSE "hit"

\* HandleDNSRequest up to the end of the cache branch: validation, the cache
\* read and, on a hit, the response and the start of the promotion
HandleDNSRequest(i, question, ok) ==
    /\ queries[i].pc = "idle"
    /\ \A j \in QueryIds : j < i => queries[j].pc # "idle"
    /\ Cardinality(InFlight) < MaxInFlight
    /\ Events < MaxEvents
    /\ IF EmptyQuestion(question)
       THEN /\ ok
            /\ queries' = [queries EXCEPT ![i] =
                   [@ EXCEPT !.pc = "done", !.question = question,
                             !.reply = FormatErrorReply, !.written = @ + 1]]
            /\ UNCHANGED <<promos, faults>>
       ELSE LET domain == DomainOf(question)
                qtype == QtypeOf(question)
                got == RedisGet(cache, CacheKey(domain, qtype))
                get == IF ok THEN got ELSE [err |-> TRUE, val |-> Garbage]
                dec == Unmarshal(get.val)
                seen == [queries[i] EXCEPT
                           !.question = question,
                           !.cacheReads = @ + 1,
                           !.cacheOutcome = CacheOutcome(ok, got, dec),
                           !.servedBefore = ServedFromStore(question),
                           !.promotedBefore = PromotionCompleted(domain, qtype),
                           !.failedBefore =
                               \E j \in QueryIds : queries[j].reply.rcode = "SERVFAIL"]
            IN  /\ Outcome(ok)
                /\ IF CacheHit(get, dec)
                   THEN /\ queries' = [queries EXCEPT ![i] =
                               [seen EXCEPT !.pc = "done", !.recs = dec.recs,
                                   !.reply = RespondWithRecords(dec.recs, qtype),
                                   !.written = @ + 1]]
                        /\ promos' = [promos EXCEPT ![i] =
                               StartPromo(domain, qtype, TRUE)]
                   ELSE /\ queries' = [queries EXCEPT ![i] =
                               [seen EXCEPT !.pc = "store"]]
                        /\ UNCHANGED promos
    /\ UNCHANGED <<records, metrics, cache, adminOps, removed>>

\* mutant: the empty result is not told apart
NoRowsNever(recs) == FALSE

\* len(recs) == 0 after the store lookup
NoRows(recs) == recs = {}

\* how the store lookup ended, as the store saw it
StoreOutcome(ok, recs) ==
    IF ~ok THEN "error" ELSE IF recs = {} THEN "empty" ELSE "rows"

\* mutant: a failed store lookup is tried again instead of answered
HandleDNSRequestStoreRetry(i, ok) ==
    /\ queries[i].pc = "store"
    /\ Outcome(ok)
    /\ LET domain == DomainOf(queries[i].question)
           qtype == QtypeOf(queries[i].question)
           recs == FetchRecords(records, domain, qtype)
           looked == [queries[i] EXCEPT
                        !.storeLookups = @ + 1,
                        !.storeOutcome = StoreOutcome(ok, recs),
                        !.domainRows = {r \in records : r.domain = domain}]
           replied == [looked EXCEPT !.pc = "done", !.written = @ + 1]
       IN  IF ~ok
           THEN /\ queries' = [queries EXCEPT ![i] = looked]
                /\ UNCHANGED promos
           ELSE IF NoRows(recs)
           THEN /\ queries' = [queries EXCEPT ![i] =
                       [replied EXCEPT !.reply = NameErrorReply]]
                /\ UNCHANGED promos
           ELSE /\ queries' = [queries EXCEPT ![i] =
                       [replied EXCEPT !.recs = recs,
                                       !.reply = RespondWithRecords(recs, qtype)]]
                /\ promos' = [promos EXCEPT ![i] =
                       StartPromo(domain, qtype, FALSE)]
    /\ UNCHANGED <<records, metrics, cache, adminOps, removed>>

\* mutant: lookups of one key are shared: a handler takes over the rows
\* another handler has already fetched for the same question
HandleDNSRequestStoreShared(i, ok) ==
    /\ queries[i].pc = "store"
    /\ Outcome(ok)
    /\ LET domain == DomainOf(queries[i].question)
           qtype == QtypeOf(queries[i].question)
           earlier == {j \in QueryIds : /\ queries[j].pc = "done"
                                        /\ queries[j].question = queries[i].question
                                        /\ queries[j].storeOutcome = "rows"}
           recs == IF earlier # {}
                   THEN queries[CHOOSE j \in earlier : TRUE].recs
                   ELSE FetchRecords(records, domain, qtype)
           looked == [queries[i] EXCEPT
                        !.pc = "done", !.written = @ + 1,
                        !.storeLookups = IF earlier # {} THEN @ ELSE @ + 1,
                        !.storeOutcome = StoreOutcome(ok, recs),
                        !.domainRows = {r \in records : r.domain = domain}]
       IN  IF ~ok
           THEN /\ queries' = [queries EXCEPT ![i] =
                       [looked EXCEPT !.reply = ServerFailureReply]]
                /\ UNCHANGED promos
           ELSE IF NoRows(recs)
           THEN /\ queries' = [queries EXCEPT ![i] =
                       [looked EXCEPT !.reply = NameErrorReply]]
                /\ UNCHANGED promos
           ELSE /\ queries' = [queries EXCEPT ![i] =
                       [looked EXCEPT !.recs = recs,
                                      !.reply = RespondWithRecords(recs, qtype)]]
                /\ promos' = [promos EXCEPT ![i] =
                       StartPromo(domain, qtype, FALSE)]
    /\ UNCHANGED <<records, metrics, cache, adminOps, removed>>

\* mutant: a query that finds no rows is counted like a resolved one
HandleDNSRequestStoreCounting(i, ok) ==
    /\ queries[i].pc = "store"
    /\ Outcome(ok)
    /\ LET domain == DomainOf(queries[i].question)
           qtype == QtypeOf(queries[i].question)
           recs == FetchRecords(records, domain, qtype)
           looked == [queries[i] EXCEPT
                        !.pc = "done", !.storeLookups = @ + 1, !.written = @ + 1,
                        !.storeOutcome = StoreOutcome(ok, recs),
                        !.domainRows = {r \in records : r.domain = domain}]
       IN  IF ~ok
           THEN /\ queries' = [queries EXCEPT ![i] =
                       [looked EXCEPT !.reply = ServerFailureReply]]
                /\ UNCHANGED promos
           ELSE IF NoRows(recs)
           THEN /\ queries' = [queries EXCEPT ![i] =
                       [looked EXCEPT !.reply = NameErrorReply]]
                /\ promos' = [promos EXCEPT ![i] =
                       StartPromo(domain, qtype, FALSE)]
           ELSE /\ queries' = [queries EXCEPT ![i] =
                       [looked EXCEPT !.recs = recs,
                                      !.reply = RespondWithRecords(recs, qtype)]]
                /\ promos' = [promos EXCEPT ![i] =
                       StartPromo(domain, qtype, FALSE)]
    /\ UNCHANGED <<records, metrics, cache, adminOps, removed>>

\* mutant: the handler waits until no promotion is running before it looks
\* the question up in the store
HandleDNSRequestStoreWaiting(i, ok) ==
    /\ queries[i].pc = "store"
    /\ \A j \in QueryIds : promos[j].pc \in {"none", "done"}
    /\ Outcome(ok)
    /\ LET domain == DomainOf(queries[i].question)
           qtype == QtypeOf(queries[i].question)
           recs == FetchRecords(records, domain, qtype)
           looked == [queries[i] EXCEPT
                        !.pc = "done", !.storeLookups = @ + 1, !.written = @ + 1,
                        !.storeOutcome = StoreOutcome(ok, recs),
                        !.domainRows = {r \in records : r.domain = domain}]
       IN  IF ~ok
           THEN /\ queries' = [queries EXCEPT ![i] =
                       [looked EXCEPT !.reply = ServerFailureReply]]
                /\ UNCHANGED promos
           ELSE IF NoRows(recs)
           THEN /\ queries' = [queries EXCEPT ![i] =
                       [looked EXCEPT !.reply = NameErrorReply]]
                /\ UNCHANGED promos
           ELSE /\ queries' = [queries EXCEPT ![i] =
                       [looked EXCEPT !.recs = recs,
                                      !.reply = RespondWithRecords(recs, qtype)]]
                /\ promos' = [promos EXCEPT ![i] =
                       StartPromo(domain, qtype, FALSE)]
    /\ UNCHANGED <<records, metrics, cache, adminOps, removed>>

\* HandleDNSRequest from the store lookup on
HandleDNSRequestStore(i, ok) ==
    /\ queries[i].pc = "store"
    /\ Outcome(ok)
    /\ LET domain == DomainOf(queries[i].question)
           qtype == QtypeOf(queries[i].question)
           recs == FetchRecords(records, domain, qtype)
           looked == [queries[i] EXCEPT
                        !.pc = "done", !.storeLookups = @ + 1, !.written = @ + 1,
                        !.storeOutcome = StoreOutcome(ok, recs),
                        !.domainRows = {r \in records : r.domain = domain}]
       IN  IF ~ok
           THEN /\ queries' = [queries EXCEPT ![i] =
                       [looked EXCEPT !.reply = ServerFailureReply]]
                /\ UNCHANGED promos
           ELSE IF NoRows(recs)
           THEN /\ queries' = [queries EXCEPT ![i] =
                       [looked EXCEPT !.reply = NameErrorReply]]
                /\ UNCHANGED promos
           ELSE /\ queries' = [queries EXCEPT ![i] =
                       [looked EXCEPT !.recs = recs,
                                      !.reply = RespondWithRecords(recs, qtype)]]
                /\ promos' = [promos EXCEPT ![i] =
                       StartPromo(domain, qtype, FALSE)]
    /\ UNCHANGED <<records, metrics, cache, adminOps, removed>>

(***************************************************************************)
(* Promotion policy: updateMetric, one step per store or cache call.       *)
(***************************************************************************)
\* mutant: a failed increment ends the promotion
UpdateMetricIncrementChecked(i, ok) ==
    /\ promos[i].pc = "inc"
    /\ Outcome(ok)
    /\ metrics' = IF ok
                  THEN IncrementMetric(metrics, promos[i].domain, promos[i].qtype)
                  ELSE metrics
    /\ promos' = [promos EXCEPT ![i] =
           [@ EXCEPT !.pc = IF ok THEN "read" ELSE "done", !.incs = @ + 1]]
    /\ UNCHANGED <<records, cache, queries, adminOps, removed>>

\* _ = db.IncrementMetric(...): the error is dropped
UpdateMetricIncrement(i, ok) ==
    /\ promos[i].pc = "inc"
    /\ Outcome(ok)
    /\ metrics' = IF ok
                  THEN IncrementMetric(metrics, promos[i].domain, promos[i].qtype)
                  ELSE metrics
    /\ promos' = [promos EXCEPT ![i] = [@ EXCEPT !.pc = "read", !.incs = @ + 1]]
    /\ UNCHANGED <<records, cache, queries, adminOps, removed>>

\* mutant: the threshold test is missing
BelowThresholdNever(hits) == FALSE

\* mutant: the threshold test lets a counter one below the threshold pass
BelowThresholdOffByOne(hits) == hits < MinHits - 1

\* mutant: the threshold test stops a counter equal to the threshold
BelowThresholdInclusive(hits) == hits <= MinHits

\* hits < minHits
BelowThreshold(hits) == hits < MinHits

\* mutant: the servedFromCache test is the wrong way round
SkipInsertionInverted(servedFromCache) == ~servedFromCache

\* mutant: the servedFromCache test is missing
SkipInsertionNever(servedFromCache) == FALSE

\* if servedFromCache { return }
SkipInsertion(servedFromCache) == servedFromCache

\* mutant: a failed counter read is reported in the reply of the query
UpdateMetricReadSurfaced(i, ok) ==
    /\ promos[i].pc = "read"
    /\ Outcome(ok)
    /\ LET got == GetDomainHits(metrics, promos[i].domain, promos[i].qtype)
           res == IF ok THEN got ELSE [err |-> TRUE, hits |-> 0]
           next == IF res.err THEN "done"
                   ELSE IF BelowThreshold(res.hits) THEN "done"
                   ELSE IF SkipInsertion(promos[i].servedFromCache) THEN "done"
                   ELSE "fetch"
       IN  /\ promos' = [promos EXCEPT ![i] =
                  [@ EXCEPT !.pc = next, !.reads = @ + 1, !.hits = res.hits]]
           /\ queries' = IF res.err
                         THEN [queries EXCEPT ![i].reply = ServerFailureReply]
                         ELSE queries
    /\ UNCHANGED <<records, metrics, cache, adminOps, removed>>

\* hits, err := db.GetDomainHits(...), then the threshold and the
\* servedFromCache tests
UpdateMetricRead(i, ok) ==
    /\ promos[i].pc = "read"
    /\ Outcome(ok)
    /\ LET got == GetDomainHits(metrics, promos[i].domain, promos[i].qtype)
           res == IF ok THEN got ELSE [err |-> TRUE, hits |-> 0]
           next == IF res.err THEN "done"
                   ELSE IF BelowThreshold(res.hits) THEN "done"
                   ELSE IF SkipInsertion(promos[i].servedFromCache) THEN "done"
                   ELSE "fetch"
       IN  promos' = [promos EXCEPT ![i] =
               [@ EXCEPT !.pc = next, !.reads = @ + 1, !.hits = res.hits]]
    /\ UNCHANGED <<records, metrics, cache, queries, adminOps, removed>>

\* mutant: the promotion caches the list the response was built from
UpdateMetricFetchReuse(i, ok) ==
    /\ promos[i].pc = "fetch"
    /\ Outcome(ok)
    /\ LET recs == IF ok THEN queries[i].recs ELSE {}
       IN  promos' = [promos EXCEPT ![i] =
               [@ EXCEPT !.pc = IF ~ok \/ recs = {} THEN "done" ELSE "write",
                         !.fetches = @ + 1, !.recs = recs,
                         !.fetchedAt = adminOps]]
    /\ UNCHANGED <<records, metrics, cache, queries, adminOps, removed>>

\* recs, err := db.FetchRecords(...); if err != nil || len(recs) == 0 { return }
UpdateMetricFetch(i, ok) ==
    /\ promos[i].pc = "fetch"
    /\ Outcome(ok)
    /\ LET recs == IF ok
                   THEN FetchRecords(records, promos[i].domain, promos[i].qtype)
                   ELSE {}
       IN  promos' = [promos EXCEPT ![i] =
               [@ EXCEPT !.pc = IF ~ok \/ recs = {} THEN "done" ELSE "write",
                         !.fetches = @ + 1, !.recs = recs,
                         !.fetchedAt = adminOps]]
    /\ UNCHANGED <<records, metrics, cache, queries, adminOps, removed>>

\* cache.CacheRecord(Ctx, domain, qtype, recs); a failure is only logged
UpdateMetricCache(i, ok) ==
    /\ promos[i].pc = "write"
    /\ Outcome(ok)
    /\ LET res == CacheRecord(cache, promos[i].domain, promos[i].qtype,
                              promos[i].recs)
       IN  /\ cache' = IF ok THEN res.cache ELSE cache
           /\ promos' = [promos EXCEPT ![i] =
                  [@ EXCEPT !.pc = "done", !.wrote = ok /\ ~res.err]]
    /\ UNCHANGED <<records, metrics, queries, adminOps, removed>>

(***************************************************************************)
(* Administrative paths: CLI commands and HTTP API handlers.  Each runs    *)
(* as one step; their store and cache calls are taken to succeed.          *)
(***************************************************************************)
Admin ==
    /\ adminOps < MaxAdminOps
    /\ Events < MaxEvents
    /\ adminOps' = adminOps + 1

\* godns add-record <domain> <type> <value> [ttl]
AddRecordCommand(t, ttlArg) ==
    /\ Admin
    /\ LET ttl == IF Len(ttlArg) = 0 THEN CliDefaultTTL ELSE ttlArg[1]
       IN  records' = AddRecord(records, Record(t[1], ToUpper(t[2]), ttl, t[3]))
    /\ UNCHANGED <<metrics, cache, queries, promos, faults, removed>>

\* POST /records
CreateRecord(t, ttlIn) ==
    /\ Admin
    /\ LET ttl == IF ttlIn = 0 THEN ApiDefaultTTL ELSE ttlIn
           rec == Record(t[1], t[2], ttl, t[3])
       IN  /\ records' = AddRecord(records, rec)
           /\ cache' = IF RedisExists(cache, CacheKey(rec.domain, rec.qtype))
                       THEN CacheRecord(cache, rec.domain, rec.qtype, {rec}).cache
                       ELSE cache
    /\ UNCHANGED <<metrics, queries, promos, faults, removed>>

\* PUT /records/{domain}/{qtype}: the loop variable rec is a copy, so the
\* list written to the cache still carries the TTLs that were fetched
UpdateRecordTTL(domain, qtype, ttlIn) ==
    /\ Admin
    /\ LET fetched == FetchRecords(records, domain, qtype)
           updated == {[r EXCEPT !.ttl = ttlIn] : r \in fetched}
       IN  IF fetched = {}
           THEN UNCHANGED <<records, cache>>
           ELSE /\ records' = AddRecords(records, updated)
                /\ cache' = IF RedisExists(cache, CacheKey(domain, qtype))
                            THEN CacheRecord(cache, domain, qtype, fetched).cache
                            ELSE cache
    /\ UNCHANGED <<metrics, queries, promos, faults, removed>>

\* mutant: deleting the records of a pair also deletes its counter
DeleteRecordWithMetric(domain, qtype) ==
    /\ Admin
    /\ records' = DeleteRecords(records, domain, qtype)
    /\ cache' = RedisDel(cache, CacheKey(domain, qtype))
    /\ metrics' = [p \in DOMAIN metrics \ {<<domain, qtype>>} |-> metrics[p]]
    /\ removed' = TRUE
    /\ UNCHANGED <<queries, promos, faults>>

\* DELETE /records/{domain}/{qtype}
DeleteRecord(domain, qtype) ==
    /\ Admin
    /\ records' = DeleteRecords(records, domain, qtype)
    /\ cache' = RedisDel(cache, CacheKey(domain, qtype))
    /\ removed' = TRUE
    /\ UNCHANGED <<metrics, queries, promos, faults>>

\* POST /cache/{domain}/{qtype}
AddToCache(domain, qtype) ==
    /\ Admin
    /\ LET recs == FetchRecords(records, domain, qtype)
       IN  cache' = IF recs = {} THEN cache
                    ELSE CacheRecord(cache, domain, qtype, recs).cache
    /\ UNCHANGED <<records, metrics, queries, promos, faults, removed>>

\* DELETE /cache/{domain}/{qtype}
RemoveFromCache(domain, qtype) ==
    /\ Admin
    /\ cache' = RedisDel(cache, CacheKey(domain, qtype))
    /\ removed' = TRUE
    /\ UNCHANGED <<records, metrics, queries, promos, faults>>

\* godns cache-record <domain> <type>
CacheRecordCommand(domain, qtypeArg) ==
    /\ Admin
    /\ LET qtype == ToUpper(qtypeArg)
           recs == FetchRecords(records, domain, qtype)
       IN  cache' = CacheRecord(cache, domain, qtype, recs).cache
    /\ UNCHANGED <<records, metrics, queries, promos, faults, removed>>

(***************************************************************************)
(* Environment of the cache: Redis drops an entry when its hour is over,   *)
(* and another client of the same Redis may leave bytes under a key that   *)
(* are no record list.                                                     *)
(***************************************************************************)
\* the time.Hour expiry of Rdb.Set
Expire(key) ==
    /\ Admin
    /\ key \in DOMAIN cache
    /\ cache[key].expiry # NoExpiry
    /\ cache' = RedisDel(cache, key)
    /\ removed' = TRUE
    /\ UNCHANGED <<records, metrics, queries, promos, faults>>

\* a value json.Unmarshal rejects
ForeignWrite(key) ==
    /\ Admin
    /\ cache' = RedisSet(cache, key, Garbage, NoExpiry)
    /\ removed' = TRUE
    /\ UNCHANGED <<records, metrics, queries, promos, faults>>

\* keys of the pairs that are asked for or administered
CacheKeys ==
    {CacheKey(p[1], p[2]) : p \in AdminPairs} \cup
    {CacheKey(DomainOf(q), QtypeOf(q)) : q \in Questions \ { << >> }}

Next ==
    \/ \E i \in QueryIds, q \in Questions, ok \in BOOLEAN : HandleDNSRequest(i, q, ok)
    \/ \E i \in QueryIds, ok \in BOOLEAN : HandleDNSRequestStore(i, ok)
    \/ \E i \in QueryIds, ok \in BOOLEAN : UpdateMetricIncrement(i, ok)
    \/ \E i \in QueryIds, ok \in BOOLEAN : UpdateMetricRead(i, ok)
    \/ \E i \in QueryIds, ok \in BOOLEAN : UpdateMetricFetch(i, ok)
    \/ \E i \in QueryIds, ok \in BOOLEAN : UpdateMetricCache(i, ok)
    \/ \E t \in RecordTriples, a \in TTLArgs : AddRecordCommand(t, a)
    \/ \E t \in RecordTriples, ttl \in InputTTLs : CreateRecord(t, ttl)
    \/ \E p \in AdminPairs, ttl \in InputTTLs : UpdateRecordTTL(p[1], p[2], ttl)
    \/ \E p \in AdminPairs : DeleteRecord(p[1], p[2])
    \/ \E p \in AdminPairs : AddToCache(p[1], p[2])
    \/ \E p \in AdminPairs : RemoveFromCache(p[1], p[2])
    \/ \E p \in AdminPairs : CacheRecordCommand(p[1], p[2])
    \/ \E k \in CacheKeys : Expire(k)
    \/ \E k \in CacheKeys : ForeignWrite(k)

Spec == Init /\ [][Next]_vars

\* The tables outlive the daemon (CREATE TABLE IF NOT EXISTS): a daemon that
\* starts on a store which already holds a record.
InitSeeded ==
    /\ records = {Record("ex.com", "A", CliDefaultTTL, ValueV4)}
    /\ metrics = << >>
    /\ cache = << >>
    /\ queries = [i \in QueryIds |-> IdleQuery]
    /\ promos = [i \in QueryIds |-> NoPromo]
    /\ adminOps = 0
    /\ faults = 0
    /\ removed = FALSE

SpecSeeded == InitSeeded /\ [][Next]_vars

\* A daemon that starts on a store whose one record was entered with a
\* domain in mixed letter case (no path of the program folds the case of a
\* domain before it is stored).
InitMixedCase ==
    /\ records = {Record("EX.com", "A", CliDefaultTTL, ValueV4)}
    /\ metrics = << >>
    /\ cache = << >>
    /\ queries = [i \in QueryIds |-> IdleQuery]
    /\ promos = [i \in QueryIds |-> NoPromo]
    /\ adminOps = 0
    /\ faults = 0
    /\ removed = FALSE

SpecMixedCase == InitMixedCase /\ [][Next]_vars

(***************************************************************************)
(* Properties.                                                             *)
(***************************************************************************)
\* queries the handler has finished
Done == {i \in QueryIds : queries[i].pc = "done"}

\* finished queries that carried a question
Asked == {i \in Done : Len(queries[i].question) > 0}

\* the cache read of query i did not give a decodable entry
Missed(i) == queries[i].cacheOutcome \in {"absent", "error", "corrupt"}

\* no call has failed and nothing was deleted, expired or garbled
Undisturbed == faults = 0 /\ ~removed

\* C1: a query whose question section is empty is answered FormatError, in
\* one message, and does no cache read, no store lookup and starts no
\* promotion (so it touches no hit counter and no cache entry).
C1_EmptyQuestionFormatError ==
    \A i \in Done :
        Len(queries[i].question) = 0 =>
            /\ queries[i].reply = [rcode |-> "FORMERR", answers |-> {}]
            /\ queries[i].written = 1
            /\ queries[i].cacheReads = 0
            /\ queries[i].storeLookups = 0
            /\ promos[i] = NoPromo

\* C1 witness: an empty query was answered while a counter and a cache entry
\* of earlier queries exist.
C1_Witness ==
    /\ \E i \in Done : Len(queries[i].question) = 0
    /\ DOMAIN metrics # {}
    /\ DOMAIN cache # {}

\* C2: a query whose cache read gave a decodable entry is answered from that
\* entry without a store lookup; its promotion only increments and reads the
\* counter and never fetches records.
C2_CacheHitNoStoreLookup ==
    \A i \in QueryIds :
        queries[i].cacheOutcome = "hit" =>
            /\ queries[i].pc = "done"
            /\ queries[i].storeLookups = 0
            /\ queries[i].reply =
                   RespondWithRecords(queries[i].recs, QtypeOf(queries[i].question))
            /\ promos[i].servedFromCache
            /\ promos[i].pc \in {"inc", "read", "done"}
            /\ promos[i].fetches = 0
            /\ ~promos[i].wrote

\* C2 witness: a cache-served query whose promotion read a counter at the
\* threshold and ended.
C2_Witness ==
    \E i \in Done :
        /\ queries[i].cacheOutcome = "hit"
        /\ queries[i].reply.answers # {}
        /\ promos[i].pc = "done"
        /\ promos[i].reads = 1
        /\ promos[i].hits >= MinHits

\* C3: a promotion whose read-back counter is below the threshold ends
\* without fetching or writing; whenever a promotion fetches or writes, it
\* read a counter at or above the threshold and the pair's counter is there.
C3_BelowThresholdNoCacheWrite ==
    \A i \in QueryIds :
        /\ (promos[i].reads > 0 /\ promos[i].hits < MinHits) =>
               /\ promos[i].pc = "done"
               /\ promos[i].fetches = 0
               /\ ~promos[i].wrote
        /\ (promos[i].pc \in {"fetch", "write"} \/ promos[i].fetches > 0
               \/ promos[i].wrote) =>
               /\ promos[i].hits >= MinHits
               /\ <<promos[i].domain, promos[i].qtype>> \in DOMAIN metrics
               /\ metrics[<<promos[i].domain, promos[i].qtype>>] >= MinHits

\* C3 witness: the promotion of a store-served response read a counter below
\* the threshold and ended, and the pair has no cache entry.
C3_Witness ==
    \E i \in Done :
        /\ queries[i].storeOutcome = "rows"
        /\ promos[i].pc = "done"
        /\ promos[i].reads = 1
        /\ promos[i].hits > 0
        /\ promos[i].hits < MinHits
        /\ CacheKey(promos[i].domain, promos[i].qtype) \notin DOMAIN cache

\* C4 as stated: once the store-served responses of a pair number the
\* threshold, the next identical query is served from the cache.
C4_NextQueryServedFromCache ==
    Undisturbed =>
        \A i \in Asked :
            queries[i].servedBefore >= MinHits => queries[i].cacheOutcome = "hit"

\* C4 amended: once a promotion of a store-served response of the pair has
\* read a counter at or above the threshold and has run to completion, an
\* identical query received afterwards is served from the cache with no
\* store lookup, as long as no call has failed and nothing was deleted,
\* expired or garbled.
C4_ServedFromCacheAfterPromotion ==
    Undisturbed =>
        \A i \in QueryIds :
            queries[i].promotedBefore =>
                /\ queries[i].pc = "done"
                /\ queries[i].cacheOutcome = "hit"
                /\ queries[i].storeLookups = 0
                /\ queries[i].reply.rcode = "NOERROR"

\* C4 witness: two store-served responses, the promotion completed, and the
\* third identical query was a cache hit.
C4_Witness ==
    /\ Undisturbed
    /\ \E i \in Done :
           /\ queries[i].promotedBefore
           /\ queries[i].servedBefore = MinHits
           /\ queries[i].cacheOutcome = "hit"
           /\ queries[i].reply.answers # {}

\* the store lookup of query i succeeded, and the store held rows of the
\* queried domain, all of them of types other than the queried one
OnlyOtherTypes(i) ==
    /\ queries[i].storeLookups = 1
    /\ queries[i].storeOutcome # "error"
    /\ QtypeOf(queries[i].question) # "ANY"
    /\ queries[i].domainRows # {}
    /\ \A r \in queries[i].domainRows :
           ~EqualFold(r.qtype, QtypeOf(queries[i].question))

\* C5 as stated: a query for a domain that has rows only of other types
\* gets a successful response with zero answers, never NameError.
C5_OtherTypesEmptySuccess ==
    \A i \in Asked :
        OnlyOtherTypes(i) => queries[i].reply = [rcode |-> "NOERROR", answers |-> {}]

\* C5 amended: on a cache miss with a successful store lookup, a query for
\* a domain that has rows only of other types gets NameError with no
\* answers, and no promotion is started.
C5_OtherTypesNameError ==
    \A i \in Asked :
        OnlyOtherTypes(i) =>
            /\ queries[i].reply = [rcode |-> "NXDOMAIN", answers |-> {}]
            /\ promos[i] = NoPromo

\* C5 witness: the domain has an A record only and was asked for AAAA.
C5_Witness ==
    \E i \in Asked :
        /\ OnlyOtherTypes(i)
        /\ QtypeOf(queries[i].question) = "AAAA"
        /\ \E r \in queries[i].domainRows : r.qtype = "A"
        /\ queries[i].reply.rcode = "NXDOMAIN"

\* C6: with no cache entry and a working store, an ANY query for a domain
\* that has records is answered successfully with the answers of all its
\* records.
C6_AnyReturnsAllRecords ==
    \A i \in Asked :
        /\ QtypeOf(queries[i].question) = "ANY"
        /\ queries[i].cacheOutcome = "absent"
        /\ queries[i].storeOutcome # "error"
        /\ queries[i].domainRows # {}
        => /\ queries[i].reply.rcode = "NOERROR"
           /\ \A r \in queries[i].domainRows : AnswersOf(r) \subseteq queries[i].reply.answers

\* C6 case: the domain has an A record and a TXT record and was asked for
\* ANY on a cache miss.
C6_Witness ==
    \E i \in Asked :
        /\ QtypeOf(queries[i].question) = "ANY"
        /\ queries[i].cacheOutcome = "absent"
        /\ queries[i].storeOutcome # "error"
        /\ \E r \in queries[i].domainRows : r.qtype = "A" /\ r.value = ValueV4
        /\ \E r \in queries[i].domainRows : r.qtype = "TXT"

\* C7: on a cache miss, a store lookup that returns zero rows ends the
\* query with NameError, no answers and no promotion.
C7_ZeroRowsNameError ==
    \A i \in QueryIds :
        queries[i].storeOutcome = "empty" =>
            /\ queries[i].pc = "done"
            /\ Missed(i)
            /\ queries[i].reply = [rcode |-> "NXDOMAIN", answers |-> {}]
            /\ queries[i].written = 1
            /\ promos[i] = NoPromo

\* C7 witness: a query for a pair without rows ended, and no counter exists.
C7_Witness ==
    \E i \in Done :
        /\ queries[i].storeOutcome = "empty"
        /\ queries[i].domainRows = {}
        /\ DOMAIN metrics = {}

\* a value written as a dotted-decimal IPv4 address
IsIPv4Literal(v) == v = ValueV4

\* a value written as an IPv4 or IPv6 address
IsIPLiteral(v) == v \in {ValueV4, ValueV4Mapped, "2001:db8::1"}

\* the values C8 calls valid for a type
ValidFor(qtype, v) ==
    CASE qtype = "A" -> IsIPv4Literal(v)
      [] qtype = "AAAA" -> IsIPLiteral(v)
      [] OTHER -> TRUE

\* the answer C8 expects for a record: its owner, type, data and stored TTL
ClaimedAnswer(r) ==
    [name |-> Fqdn(r.domain), rrtype |-> r.qtype, class |-> "IN",
     ttl |-> IF r.ttl >= 0
             THEN [hi |-> r.ttl \div HalfWord, lo |-> r.ttl % HalfWord]
             ELSE [hi |-> -1, lo |-> -1],
     rdata |-> CASE r.qtype = "A" -> r.value
                 [] r.qtype = "AAAA" -> ParseIP(r.value)
                 [] r.qtype = "CNAME" -> Fqdn(r.value)
                 [] OTHER -> r.value]

\* C8: a store-served resolution of (D, T), T one of A, AAAA, CNAME, TXT, is
\* successful and its answers are exactly those of the fetched records whose
\* value is valid for T, each with the stored TTL; an A record whose value
\* is no IPv4 literal is left out.
C8_AnswersAreValidSubset ==
    \A i \in Asked :
        /\ queries[i].storeOutcome = "rows"
        /\ QtypeOf(queries[i].question) \in {"A", "AAAA", "CNAME", "TXT"}
        => /\ queries[i].reply.rcode = "NOERROR"
           /\ queries[i].reply.answers =
                  {ClaimedAnswer(r) : r \in {x \in queries[i].recs :
                       ValidFor(QtypeOf(queries[i].question), x.value)}}

\* C8 case: rows with a valid and an invalid value were fetched, and the
\* response carries an answer.
C8_Witness ==
    \E i \in Asked :
        /\ queries[i].storeOutcome = "rows"
        /\ \E r \in queries[i].recs : r.value = ValueHost
        /\ \E r \in queries[i].recs : r.value = ValueV4
        /\ queries[i].reply.answers # {}

\* C9: a failed store lookup ends the query with ServerFailure after one
\* lookup and without a promotion; a query received after such a failure
\* whose own store lookup succeeds is resolved as usual.
C9_StoreErrorServerFailure ==
    \A i \in QueryIds :
        /\ queries[i].storeOutcome = "error" =>
               /\ queries[i].pc = "done"
               /\ queries[i].reply = [rcode |-> "SERVFAIL", answers |-> {}]
               /\ queries[i].storeLookups = 1
               /\ queries[i].written = 1
               /\ promos[i] = NoPromo
        /\ (queries[i].failedBefore /\ queries[i].storeOutcome = "rows") =>
               /\ queries[i].reply =
                      RespondWithRecords(queries[i].recs, QtypeOf(queries[i].question))
               /\ queries[i].recs =
                      {r \in queries[i].domainRows :
                           r.qtype = QtypeOf(queries[i].question)}
               /\ promos[i].pc # "none"
        /\ (queries[i].failedBefore /\ queries[i].storeOutcome = "empty") =>
               queries[i].reply = [rcode |-> "NXDOMAIN", answers |-> {}]

\* C9 witness: one query ended with ServerFailure, and a later one was
\* answered from the store.
C9_Witness ==
    \E i, j \in Done :
        /\ queries[i].reply.rcode = "SERVFAIL"
        /\ queries[j].failedBefore
        /\ queries[j].storeOutcome = "rows"
        /\ queries[j].reply.answers # {}

\* the reply the store result alone gives
ReplyOfStore(i) ==
    CASE queries[i].storeOutcome = "error" -> [rcode |-> "SERVFAIL", answers |-> {}]
      [] queries[i].storeOutcome = "empty" -> [rcode |-> "NXDOMAIN", answers |-> {}]
      [] OTHER ->
            RespondWithRecords(
                {r \in queries[i].domainRows : r.qtype = QtypeOf(queries[i].question)},
                QtypeOf(queries[i].question))

\* C10: a cache read that finds the key absent, fails, or yields a value
\* that does not decode is a miss: the query goes on to one store lookup and
\* its reply is the one the store result gives.
C10_CacheMissFallsThrough ==
    \A i \in QueryIds :
        Missed(i) =>
            /\ queries[i].pc \in {"store", "done"}
            /\ queries[i].cacheReads = 1
            /\ queries[i].pc = "done" =>
                   /\ queries[i].storeLookups = 1
                   /\ queries[i].storeOutcome # "none"
                   /\ queries[i].reply = ReplyOfStore(i)

\* C10 witness: the key held a value that does not decode, and the query
\* was answered from the store.
C10_Witness ==
    \E i \in Done :
        /\ queries[i].cacheOutcome = "corrupt"
        /\ queries[i].storeOutcome = "rows"
        /\ queries[i].reply.answers # {}

\* C11: a promotion exists only for a query whose handler has returned with
\* its one response written (a success), no step of a promotion changes any
\* query, and a response once written stays as it was written, whatever
\* the promotion's calls return.
C11_ResponseBeforePromotion ==
    /\ [](\A i \in QueryIds :
             promos[i].pc # "none" =>
                 /\ queries[i].pc = "done"
                 /\ queries[i].written = 1
                 /\ queries[i].reply.rcode = "NOERROR")
    /\ [][\A i \in QueryIds :
             /\ (promos[i].pc # "none" /\ promos'[i] # promos[i]) => queries' = queries
             /\ queries[i].pc = "done" => queries'[i] = queries[i]]_vars

\* C11 witness: a query was answered with records, a call of its promotion
\* failed (the counter read gave nothing) and the promotion ended.
C11_Witness ==
    \E i \in Done :
        /\ queries[i].reply.answers # {}
        /\ promos[i].pc = "done"
        /\ promos[i].reads = 1
        /\ promos[i].hits = 0
        /\ faults > 0

\* C12: in every step, whichever of the resolver, a promotion or an
\* administrative operation takes it, every hit counter that exists is
\* still there afterwards and is not smaller than before.
C12_HitCounterNeverDecreases ==
    [][\A p \in DOMAIN metrics :
           /\ p \in DOMAIN metrics'
           /\ metrics'[p] >= metrics[p]]_vars

\* C12 witness: a pair has a counter, and its records were deleted after
\* the response that counted.
C12_Witness ==
    \E i \in Done :
        /\ queries[i].storeOutcome = "rows"
        /\ promos[i].pc = "done"
        /\ <<promos[i].domain, promos[i].qtype>> \in DOMAIN metrics
        /\ metrics[<<promos[i].domain, promos[i].qtype>>] >= 1
        /\ FetchRecords(records, promos[i].domain, promos[i].qtype) = {}
        /\ removed

\* the pairs promotions were started for
PromotedPairs == {<<promos[i].domain, promos[i].qtype>> : i \in InFlight \cup Done} \
                     {<<"", "">>}

\* promotions of the pair that are past their increment
Incremented(p) ==
    {i \in QueryIds : /\ promos[i].incs > 0
                      /\ <<promos[i].domain, promos[i].qtype>> = p}

\* the value of the pair's counter, 0 when it has no row
Hits(p) == IF p \in DOMAIN metrics THEN metrics[p] ELSE 0

\* C13: every resolved response, from the cache or from the store, starts
\* one promotion, which increments once; in every interleaving the pair's
\* counter is the number of promotions past their increment, less at most
\* the number of failed calls, and exactly that number when no call failed.
C13_OneIncrementPerResponse ==
    /\ \A i \in Done :
           queries[i].reply.rcode = "NOERROR" =>
               /\ promos[i].pc # "none"
               /\ promos[i].incs = (IF promos[i].pc = "inc" THEN 0 ELSE 1)
    /\ \A p \in PromotedPairs \cup DOMAIN metrics :
           /\ Hits(p) <= Cardinality(Incremented(p))
           /\ Hits(p) >= Cardinality(Incremented(p)) - faults
           /\ faults = 0 => Hits(p) = Cardinality(Incremented(p))

\* C13 witness: three responses of one pair, store-served and cache-served,
\* all promotions over, no failed call, and the counter stands at three.
C13_Witness ==
    /\ faults = 0
    /\ \A i \in QueryIds : promos[i].pc = "done"
    /\ \E i, j \in Done : /\ queries[i].cacheOutcome = "hit"
                           /\ queries[j].storeOutcome = "rows"
                           /\ promos[i].domain = promos[j].domain
                           /\ promos[i].qtype = promos[j].qtype
                           /\ Hits(<<promos[i].domain, promos[i].qtype>>) = MinHits + 1

\* promotions started for responses of the pair that the store served
StoreServed(p) ==
    {j \in QueryIds : /\ promos[j].pc # "none"
                      /\ ~promos[j].servedFromCache
                      /\ <<promos[j].domain, promos[j].qtype>> = p}

\* promotions started for responses of the pair that the cache served
CacheServed(p) ==
    {j \in QueryIds : /\ promos[j].pc # "none"
                      /\ promos[j].servedFromCache
                      /\ <<promos[j].domain, promos[j].qtype>> = p}

\* C14 as stated: when a promotion writes an entry for a pair that has
\* none, at least the threshold of responses of that pair were served from
\* the store.
C14_CachedAfterThresholdMisses ==
    [][\A i \in QueryIds :
           /\ promos[i].pc = "write"
           /\ promos'[i].wrote
           /\ CacheKey(promos[i].domain, promos[i].qtype) \notin DOMAIN cache
           => Cardinality(StoreServed(<<promos[i].domain, promos[i].qtype>>))
                  >= MinHits]_vars

\* C14 amended: a promotion writes the cache only for a response that the
\* store served, and only when the responses of the pair, cache-served ones
\* included, number at least the threshold; when none of them was served
\* from the cache, the store-served ones alone number at least the
\* threshold.
C14_CachedAfterThresholdResponses ==
    \A i \in QueryIds :
        promos[i].wrote =>
            LET p == <<promos[i].domain, promos[i].qtype>>
            IN  /\ i \in StoreServed(p)
                /\ queries[i].storeOutcome = "rows"
                /\ Cardinality(StoreServed(p)) + Cardinality(CacheServed(p))
                       >= MinHits
                /\ CacheServed(p) = {} => Cardinality(StoreServed(p)) >= MinHits

\* C14 witness: a pair was served from a warmed entry, the entry went away,
\* and the promotion of the first store-served response wrote the entry.
C14_Witness ==
    \E i \in Done :
        LET p == <<promos[i].domain, promos[i].qtype>>
        IN  /\ promos[i].wrote
            /\ StoreServed(p) = {i}
            /\ CacheServed(p) # {}
            /\ removed
            /\ CacheKey(promos[i].domain, promos[i].qtype) \in DOMAIN cache

\* promotions of the pair that have written the cache
Wrote(p) ==
    {i \in QueryIds : promos[i].wrote /\ <<promos[i].domain, promos[i].qtype>> = p}

\* C15 as stated: as long as no entry has expired or been removed, at most
\* one promotion of a pair writes the cache.
C15_OnlyCrossingResponseWrites ==
    ~removed => \A p \in PromotedPairs : Cardinality(Wrote(p)) <= 1

\* C15 amended: a promotion writes the cache exactly when its response was
\* served from the store (the handler's own cache read was a miss) and the
\* counter it read is at or above the threshold: every such promotion
\* that ends with no failed call and a non-empty re-fetch has written, so
\* the responses of queries that all missed the cold pair each write.
C15_StoreServedAtThresholdWrites ==
    \A i \in QueryIds :
        /\ promos[i].wrote =>
               /\ Missed(i)
               /\ queries[i].storeOutcome = "rows"
               /\ ~promos[i].servedFromCache
               /\ promos[i].hits >= MinHits
        /\ (/\ promos[i].pc = "done"
            /\ ~promos[i].servedFromCache
            /\ promos[i].reads = 1
            /\ promos[i].hits >= MinHits
            /\ promos[i].recs # {}
            /\ faults = 0) => promos[i].wrote

\* C15 witness: two promotions of one pair have both written the cache, and
\* nothing has expired or been removed.
C15_Witness ==
    /\ ~removed
    /\ faults = 0
    /\ \E p \in PromotedPairs : Cardinality(Wrote(p)) = 2

\* the rows of the store that belong under a cache key
RowsUnder(rows, key) == {r \in rows : CacheKey(r.domain, r.qtype) = key}

\* the keys whose entry a step has set to a record list
Rewritten ==
    {k \in DOMAIN cache' :
        /\ cache'[k].val.json
        /\ k \in DOMAIN cache => cache'[k] # cache[k]}

\* C16: whenever a step sets a cache entry to a record list, that list is
\* the complete list of the pair's rows in the store as the step leaves it.
C16_EntryIsCompleteRecordList ==
    [][\A k \in Rewritten : cache'[k].val.recs = RowsUnder(records', k)]_vars

\* C16 case: a pair has two rows in the store, and its cache entry holds
\* one of them only.
C16_Witness ==
    \E k \in DOMAIN cache :
        /\ cache[k].val.json
        /\ Cardinality(RowsUnder(records, k)) = 2
        /\ Cardinality(cache[k].val.recs) = 1
        /\ cache[k].val.recs \subseteq RowsUnder(records, k)

\* the rows an upsert may be given
UpsertRows ==
    {Record(t[1], t[2], ttl, t[3]) :
        t \in RecordTriples, ttl \in InputTTLs \cup {ApiDefaultTTL}}

\* C17: the store never holds two rows of one (domain, qtype, value), and
\* for every store the program reaches and every row r: after upserting r
\* the triple of r has the one row r (so an existing row has only its TTL
\* replaced by the written one), the rows of other triples are those from
\* before, the size grows by one only for a new triple, and upserting r
\* once more changes nothing.
C17_UpsertIdempotent ==
    /\ \A r, s \in records : SameTriple(r, s) => r = s
    /\ \A r \in UpsertRows :
           LET once == AddRecord(records, r)
               known == \E s \in records : SameTriple(s, r)
           IN  /\ r \in once
               /\ \A s \in once : SameTriple(s, r) => s = r
               /\ {s \in once : ~SameTriple(s, r)} =
                      {s \in records : ~SameTriple(s, r)}
               /\ Cardinality(once) =
                      Cardinality(records) + (IF known THEN 0 ELSE 1)
               /\ AddRecord(once, r) = once

\* C17 witness: a row was upserted again with another TTL (TTL 0 is only
\* ever written by the TTL update, onto a row that exists), and it is still
\* the one row of the store.
C17_Witness ==
    \E s \in records :
        /\ s.ttl = 0
        /\ records = {s}

\* C18: every step of the promotion of a cache-served response leaves the
\* cache (entries and their expiry), the records and the queries as they
\* are, makes no record fetch and no cache write, and changes no counter
\* other than by the one increment of its own pair.
C18_CacheServedPromotionOnlyCounts ==
    [][\A i \in QueryIds :
           (queries[i].cacheOutcome = "hit" /\ promos[i].pc # "none"
                /\ promos'[i] # promos[i]) =>
               /\ cache' = cache
               /\ records' = records
               /\ queries' = queries
               /\ promos'[i].pc \in {"read", "done"}
               /\ promos'[i].fetches = 0
               /\ ~promos'[i].wrote
               /\ metrics' \in {metrics,
                       IncrementMetric(metrics, promos[i].domain, promos[i].qtype)}]_vars

\* C18 witness: the promotion of a cache-served response read a counter
\* above the threshold and ended; the entry is as it was, and the counter
\* counted the response.
C18_Witness ==
    \E i \in Done :
        /\ queries[i].cacheOutcome = "hit"
        /\ promos[i].pc = "done"
        /\ promos[i].reads = 1
        /\ promos[i].hits > MinHits
        /\ CacheKey(promos[i].domain, promos[i].qtype) \in DOMAIN cache
        /\ cache[CacheKey(promos[i].domain, promos[i].qtype)].val.recs = queries[i].recs
        /\ Hits(<<promos[i].domain, promos[i].qtype>>) = promos[i].hits

\* C19: the promotion of a store-served response that read a counter at or
\* above the threshold goes on to the re-fetch; the re-fetch step keeps
\* the rows the store holds at that moment and goes on to the write only
\* if it succeeded with at least one row; the write step, if it succeeds,
\* sets the pair's entry to exactly the re-fetched list with an expiry of
\* one hour and leaves all other entries alone; in every other case the
\* cache stays as it was.  No step changes a query.
C19_PromotionWritesRefetchedList ==
    [][\A i \in QueryIds :
           LET domain == promos[i].domain
               qtype == promos[i].qtype
               key == CacheKey(domain, qtype)
           IN  /\ (promos[i].pc = "read" /\ promos'[i].pc # "read") =>
                      /\ cache' = cache /\ queries' = queries
                      /\ promos'[i].pc = "fetch" <=>
                             /\ ~promos[i].servedFromCache
                             /\ promos'[i].hits >= MinHits
               /\ (promos[i].pc = "fetch" /\ promos'[i].pc # "fetch") =>
                      /\ cache' = cache /\ queries' = queries
                      /\ ~promos'[i].wrote
                      /\ promos'[i].pc = "write" =>
                             /\ promos'[i].recs = FetchRecords(records, domain, qtype)
                             /\ promos'[i].recs # {}
                      /\ promos'[i].pc = "done" =>
                             (faults' > faults
                                  \/ FetchRecords(records, domain, qtype) = {})
               /\ (promos[i].pc = "write" /\ promos'[i].pc # "write") =>
                      /\ queries' = queries
                      /\ promos'[i].pc = "done"
                      /\ promos'[i].wrote =>
                             /\ DOMAIN cache' = DOMAIN cache \cup {key}
                             /\ cache'[key] = [val |-> Marshal(promos[i].recs),
                                               expiry |-> TimeHour]
                             /\ \A k \in DOMAIN cache \ {key} : cache'[k] = cache[k]
                      /\ ~promos'[i].wrote => (cache' = cache /\ faults' > faults)]_vars

\* C19 witness: the store gained a record between the response and the
\* re-fetch, and the entry written holds the re-fetched list, which is not
\* the list of the response, with the expiry of one hour.
C19_Witness ==
    \E i \in Done :
        LET key == CacheKey(promos[i].domain, promos[i].qtype)
        IN  /\ promos[i].wrote
            /\ promos[i].recs # queries[i].recs
            /\ key \in DOMAIN cache
            /\ cache[key] = [val |-> Marshal(promos[i].recs), expiry |-> TimeHour]

\* the counter read of promotion i was made and failed: a counter that is
\* read is at least 1, and a failed read leaves hits at 0
ReadFailed(i) == promos[i].reads > 0 /\ promos[i].hits = 0

\* C20: a promotion makes its increment first and, whether or not that
\* succeeded, its counter read next; a promotion whose counter read failed
\* (the call failed, or the pair has no row) has ended without a record
\* fetch and without a cache write, and the response of its query is the
\* one built from the records the handler had.
C20_FailedReadEndsPromotion ==
    \A i \in QueryIds :
        /\ promos[i].pc = "inc" <=> (promos[i].pc # "none" /\ promos[i].incs = 0)
        /\ promos[i].reads <= promos[i].incs
        /\ (promos[i].incs = 1 /\ promos[i].reads = 0) => promos[i].pc = "read"
        /\ (promos[i].pc = "read" /\
                <<promos[i].domain, promos[i].qtype>> \notin DOMAIN metrics) =>
               GetDomainHits(metrics, promos[i].domain, promos[i].qtype).err
        /\ ReadFailed(i) =>
               /\ promos[i].pc = "done"
               /\ promos[i].fetches = 0
               /\ ~promos[i].wrote
               /\ queries[i].written = 1
               /\ queries[i].reply =
                      RespondWithRecords(queries[i].recs, QtypeOf(queries[i].question))

\* C20 witness: the increment failed, so the pair has no counter row; the
\* read-back was still made, found no row, and the promotion ended with
\* the cache empty.
C20_Witness ==
    \E i \in Done :
        /\ promos[i].incs = 1
        /\ ReadFailed(i)
        /\ promos[i].pc = "done"
        /\ <<promos[i].domain, promos[i].qtype>> \notin DOMAIN metrics
        /\ faults = 1
        /\ cache = << >>

\* two different promotions of one pair that have both written the cache
BothWrote(i, j) ==
    /\ i # j
    /\ promos[i].wrote /\ promos[j].wrote
    /\ promos[i].domain = promos[j].domain
    /\ promos[i].qtype = promos[j].qtype

\* C21 as stated: when two promotions of a pair have both written the entry
\* with no expiry or removal in between, the lists they wrote are the same,
\* whatever administrative writes came between their re-fetches.
C21_RacingWritesEquivalent ==
    ~removed =>
        \A i, j \in QueryIds : BothWrote(i, j) => promos[i].recs = promos[j].recs

\* C21 amended: two promotions of a pair that re-fetched with no
\* administrative operation between their re-fetches have written the same
\* list, and as long as no administrative operation has come since, the
\* entry is that whole list with the expiry of one hour, whichever of the
\* two wrote last.
C21_RacingWritesAgreeOnSameStore ==
    \A i, j \in QueryIds :
        (BothWrote(i, j) /\ promos[i].fetchedAt = promos[j].fetchedAt) =>
            /\ promos[i].recs = promos[j].recs
            /\ adminOps = promos[i].fetchedAt =>
                   LET key == CacheKey(promos[i].domain, promos[i].qtype)
                   IN  /\ key \in DOMAIN cache
                       /\ cache[key] = [val |-> Marshal(promos[i].recs),
                                        expiry |-> TimeHour]

\* C21 witness: two promotions of a pair both wrote, an administrative
\* record write came before the two responses' re-fetches, and the entry
\* is the list both fetched.
C21_Witness ==
    \E i, j \in QueryIds :
        /\ BothWrote(i, j)
        /\ promos[i].fetchedAt = promos[j].fetchedAt
        /\ adminOps = promos[i].fetchedAt
        /\ promos[i].recs # queries[i].recs
        /\ cache[CacheKey(promos[i].domain, promos[i].qtype)].val.recs = promos[j].recs

\* finished queries with the question of query i whose cache read missed
MissedLike(i) ==
    {j \in Done : queries[j].question = queries[i].question /\ Missed(j)}

\* C22: of the finished queries for one question that missed the cache,
\* each has made a store lookup of its own, so there are as many lookups as
\* such queries, and each reply is the one its own lookup gives.
C22_ColdLookupsNotShared ==
    \A i \in Asked :
        Missed(i) =>
            /\ \A j \in MissedLike(i) :
                   /\ queries[j].storeLookups = 1
                   /\ queries[j].written = 1
                   /\ queries[j].reply = ReplyOfStore(j)
                   /\ queries[j].storeOutcome = "rows" =>
                          queries[j].recs =
                              {r \in queries[j].domainRows :
                                   r.qtype = QtypeOf(queries[j].question)}
            /\ \A j \in QueryIds :
                   (queries[j].pc = "store" /\ queries[j].question = queries[i].question)
                       => queries[j].storeLookups = 0

\* C22 witness: two queries for one cold pair were in flight together (each
\* read the cache before any response for the pair was written), and each
\* was answered from its own store lookup.
C22_Witness ==
    \E i, j \in Asked :
        /\ i # j
        /\ queries[i].question = queries[j].question
        /\ queries[i].servedBefore = 0 /\ queries[j].servedBefore = 0
        /\ queries[i].storeOutcome = "rows" /\ queries[j].storeOutcome = "rows"
        /\ queries[i].storeLookups = 1 /\ queries[j].storeLookups = 1
        /\ queries[i].reply.answers # {} /\ queries[j].reply.answers # {}

\* (domain, qtype) pairs in several spellings: of queries (a name in either
\* letter case or with a colon in a label, a type name) and of
\* administrative requests (a type in lower case)
KeyPairs ==
    {"ex.com", "EX.com", "ex.com:a"} \X {"A", "a", "AAAA", "TXT", "txt"}

\* the same string up to letter case, told without the folding functions
SameLetters(s, u) ==
    \/ s = u
    \/ {s, u} \in {{"ex.com", "EX.com"}, {"A", "a"}, {"TXT", "txt"}}

\* the key the pair of a question is kept under: the prefix, the name in
\* lower case without the root dot, the type name
KeyOfQuestion(question) ==
    CASE question[1].name \in {"ex.com.", "EX.com."} ->
             "dns:record:ex.com:" \o question[1].qtype
      [] OTHER -> "dns:record:" \o question[1].name \o ":" \o question[1].qtype

\* C23: two pairs have the same cache key exactly when their domains are
\* the same up to letter case and their types are; a handler's cache read
\* is a hit exactly when the key of the question's pair in lower-case
\* domain and upper-case type holds a record list (and the read did not
\* fail), and a promotion's write lands under that key, so queries that
\* differ in letter case only read and write one entry.
C23_CacheKeyNormalized ==
    /\ \A p, q \in KeyPairs :
           CacheKey(p[1], p[2]) = CacheKey(q[1], q[2])
               <=> (SameLetters(p[1], q[1]) /\ SameLetters(p[2], q[2]))
    /\ [][\A i \in QueryIds :
             /\ (queries[i].pc = "idle" /\ queries'[i].pc # "idle"
                     /\ Len(queries'[i].question) > 0 /\ faults' = faults) =>
                    LET key == KeyOfQuestion(queries'[i].question)
                    IN  queries'[i].cacheOutcome = "hit"
                            <=> (key \in DOMAIN cache /\ cache[key].val.json)
             /\ (promos[i].pc = "write" /\ promos'[i].wrote) =>
                    LET key == KeyOfQuestion(queries[i].question)
                    IN  /\ DOMAIN cache' = DOMAIN cache \cup {key}
                        /\ cache'[key].val = Marshal(promos[i].recs)]_vars

\* C23 witness: the promotion of a query for EX.com wrote the entry, and a
\* query for ex.com was then served from that entry.
C23_Witness ==
    \E i, j \in Done :
        /\ promos[j].wrote
        /\ promos[j].domain = "EX.com"
        /\ queries[i].cacheOutcome = "hit"
        /\ DomainOf(queries[i].question) = "ex.com"
        /\ queries[i].recs = promos[j].recs
        /\ DOMAIN cache = {"dns:record:ex.com:A"}

\* the reply the store path gives for a pair on the rows the store holds
StoreReply(rows, domain, qtype) ==
    IF FetchRecords(rows, domain, qtype) = {}
    THEN NameErrorReply
    ELSE RespondWithRecords(FetchRecords(rows, domain, qtype), qtype)

\* C24: when a handler is served from an entry that holds a record list
\* equal to the rows the store now has under that key (an entry written by
\* promotion or cache-warm, the store not changed since), the reply is the
\* one the store path would give for the query.
C24_CacheReplyEqualsStoreReply ==
    [][\A i \in QueryIds :
           (queries[i].pc = "idle" /\ queries'[i].cacheOutcome = "hit") =>
               LET domain == DomainOf(queries'[i].question)
                   qtype == QtypeOf(queries'[i].question)
                   key == CacheKey(domain, qtype)
               IN  cache[key].val.recs = RowsUnder(records, key) =>
                       queries'[i].reply = StoreReply(records, domain, qtype)]_vars

\* C24 case: a query whose name differs in letter case from the stored
\* domain was answered with records from the cache, while the store has
\* no row for the name as queried.
C24_Witness ==
    \E i \in Done :
        /\ queries[i].cacheOutcome = "hit"
        /\ DomainOf(queries[i].question) = "EX.com"
        /\ queries[i].reply.rcode = "NOERROR"
        /\ queries[i].reply.answers # {}
        /\ FetchRecords(records, "EX.com", "A") = {}
        /\ cache["dns:record:ex.com:A"].val.recs = FetchRecords(records, "ex.com", "A")

\* C25: every step of the TTL update on a pair that has rows and a cache
\* entry holding a record list leaves an entry that holds the pair's rows
\* as the store now has them, each with the TTL given.
C25_TTLUpdateRefreshesEntry ==
    [][\A p \in AdminPairs, ttl \in InputTTLs :
           LET key == CacheKey(p[1], p[2])
           IN  (/\ UpdateRecordTTL(p[1], p[2], ttl)
                /\ FetchRecords(records, p[1], p[2]) # {}
                /\ key \in DOMAIN cache
                /\ cache[key].val.json)
               => /\ key \in DOMAIN cache'
                  /\ cache'[key].val.recs = FetchRecords(records', p[1], p[2])
                  /\ \A r \in cache'[key].val.recs : r.ttl = ttl]_vars

\* C25 case: after a TTL update to 0 the store has the pair's row with TTL
\* 0, and the pair's cache entry there is holds the row with another TTL.
C25_Witness ==
    \E p \in AdminPairs :
        LET key == CacheKey(p[1], p[2])
            rows == FetchRecords(records, p[1], p[2])
        IN  /\ rows # {}
            /\ \A r \in rows : r.ttl = 0
            /\ key \in DOMAIN cache
            /\ cache[key].val.json
            /\ \E c \in cache[key].val.recs :
                   \E r \in rows : SameTriple(c, r) /\ c.ttl # r.ttl

\* C26: a cache entry that holds a record list exists only for a pair that
\* has rows in the store: once a pair's rows are deleted (which removes the
\* entry), no entry for it is there, or comes back, while no row is added.
C26_NoEntryAfterDeletion ==
    \A key \in DOMAIN cache :
        cache[key].val.json => RowsUnder(records, key) # {}

\* C26 case: a promotion re-fetched the pair's rows, the rows were deleted,
\* and the promotion then wrote; a later query was answered from the entry
\* with a deleted record.
C26_Witness ==
    \E i, j \in Done :
        /\ promos[i].wrote
        /\ FetchRecords(records, promos[i].domain, promos[i].qtype) = {}
        /\ queries[j].cacheOutcome = "hit"
        /\ queries[j].recs = promos[i].recs
        /\ queries[j].reply.answers # {}
        /\ promos[i].fetchedAt < adminOps

\* C27: every entry that holds a record list holds at least one record,
\* and on every cache the program reaches, a write of the empty list under
\* any pair is refused with an error and gives back the cache as it was.
C27_EntriesAreNonEmpty ==
    /\ \A key \in DOMAIN cache : cache[key].val.json => cache[key].val.recs # {}
    /\ \A p \in AdminPairs :
           /\ CacheRecord(cache, p[1], p[2], {}).err
           /\ CacheRecord(cache, p[1], p[2], {}).cache = cache

\* C27 witness: the pair (ex.com, A) has an entry with a record list while
\* the store has no TXT row; an empty write under the entry's own key is
\* refused and the entry stays.
C27_Witness ==
    /\ "dns:record:ex.com:A" \in DOMAIN cache
    /\ cache["dns:record:ex.com:A"].val.recs # {}
    /\ FetchRecords(records, "ex.com", "TXT") = {}
    /\ CacheRecord(cache, "ex.com", "A", {}).err
    /\ CacheRecord(cache, "ex.com", "A", {}).cache["dns:record:ex.com:A"]
           = cache["dns:record:ex.com:A"]

\* finished queries of the pair that were answered with success
Resolved(p) ==
    {i \in Asked : /\ queries[i].reply.rcode = "NOERROR"
                   /\ <<DomainOf(queries[i].question), QtypeOf(queries[i].question)>> = p}

\* C28: a query answered FormatError, ServerFailure or NameError has no
\* promotion; no step of a handler changes a counter, the cache or the
\* records; and a pair's counter never exceeds the number of its queries
\* that were answered with success.
C28_ErrorRepliesScheduleNothing ==
    /\ [](/\ \A i \in Done :
                 queries[i].reply.rcode \in {"FORMERR", "SERVFAIL", "NXDOMAIN"}
                     => promos[i] = NoPromo
           /\ \A p \in DOMAIN metrics : metrics[p] <= Cardinality(Resolved(p)))
    /\ [][\A i \in QueryIds :
             queries'[i] # queries[i] =>
                 /\ metrics' = metrics /\ cache' = cache /\ records' = records
                 /\ queries'[i].reply.rcode \in {"FORMERR", "SERVFAIL", "NXDOMAIN"}
                        => promos' = promos]_vars

\* C28 witness: three queries ended, one in each of FormatError,
\* ServerFailure and NameError, and there is no counter and no cache entry.
C28_Witness ==
    /\ \E i \in Done : queries[i].reply.rcode = "FORMERR"
    /\ \E i \in Done : queries[i].reply.rcode = "SERVFAIL"
    /\ \E i \in Done : queries[i].reply.rcode = "NXDOMAIN"
    /\ metrics = << >>
    /\ cache = << >>

\* Each handler is a goroutine of its own: once it has missed the cache its
\* store call returns, with rows or with an error, whatever the promotions,
\* the other handlers and the administrators do. Nothing else is scheduled
\* fairly.
SpecLive ==
    /\ Init
    /\ [][Next]_vars
    /\ \A i \in QueryIds : WF_vars(\E ok \in BOOLEAN : HandleDNSRequestStore(i, ok))

\* the terminal states the path of a finished handler fits
Terminals(i) ==
    LET q == queries[i]
    IN  (IF /\ q.reply.rcode = "FORMERR" /\ EmptyQuestion(q.question)
            /\ q.cacheReads = 0 /\ q.storeLookups = 0
         THEN {"FormatError"} ELSE {}) \cup
        (IF /\ q.reply.rcode = "NOERROR" /\ q.cacheOutcome = "hit"
            /\ q.cacheReads = 1 /\ q.storeLookups = 0
         THEN {"ServedFromCache"} ELSE {}) \cup
        (IF /\ q.reply.rcode = "SERVFAIL" /\ q.storeOutcome = "error"
            /\ q.cacheReads = 1 /\ q.storeLookups = 1
         THEN {"ServerFailure"} ELSE {}) \cup
        (IF /\ q.reply.rcode = "NXDOMAIN" /\ q.storeOutcome = "empty"
            /\ q.cacheReads = 1 /\ q.storeLookups = 1
         THEN {"NameError"} ELSE {}) \cup
        (IF /\ q.reply.rcode = "NOERROR" /\ q.storeOutcome = "rows"
            /\ q.cacheOutcome # "hit"
            /\ q.cacheReads = 1 /\ q.storeLookups = 1
         THEN {"ServedFromStore"} ELSE {})

\* C29: a finished handler is in exactly one of the five terminal states and
\* has written exactly one message, an unfinished one has written none, a
\* finished handler never moves again, and a handler that has missed the
\* cache finishes although only its own step is scheduled fairly (no
\* promotion and no other handler has to move).
C29_OneTerminalStateOneMessage ==
    /\ [](\A i \in QueryIds :
             /\ queries[i].pc = "done" =>
                    /\ Cardinality(Terminals(i)) = 1
                    /\ queries[i].written = 1
             /\ queries[i].pc # "done" =>
                    /\ queries[i].written = 0
                    /\ queries[i].reply = NoReply)
    /\ [][\A i \in QueryIds :
             queries[i].pc = "done" => queries'[i] = queries[i]]_vars
    /\ \A i \in QueryIds : queries[i].pc = "store" ~> queries[i].pc = "done"

\* C29 witness: a store-served response started a promotion that has not
\* taken a step, and a later query for the same question has finished with
\* its one message.
C29_Witness ==
    \E i, j \in QueryIds :
        /\ i # j
        /\ \A k \in QueryIds \ {i, j} : queries[k].pc = "idle"
        /\ queries[i].pc = "done"
        /\ queries[i].storeOutcome = "rows"
        /\ promos[i].pc = "inc"
        /\ queries[j].pc = "done"
        /\ queries[j].question = queries[i].question
        /\ queries[j].servedBefore = 1
        /\ queries[j].written = 1
        /\ Cardinality(Terminals(j)) = 1

====
